---- MODULE Spec2Model ----
(***************************************************************************)
(* Model of zfs-pool-info.py: the per-pool disk inventory (main), the      *)
(* device reference extraction, the identity resolution and the            *)
(* multi-source attribute aggregation.                                     *)
(*                                                                         *)
(* Device paths /dev/sd<letter>[<digit>] are modelled as the tuple of      *)
(* their distinguishing characters: <<1>> is /dev/sda, <<1, 2>> is         *)
(* /dev/sda2, <<2, 1>> is /dev/sdb1.  Python compares strings character by *)
(* character, which StrLess does on the tuples.                            *)
(*                                                                         *)
(* Python's None is the string "<None>", a key missing from a JSON object  *)
(* is "<absent>" and a JSON null is "<null>".                              *)
(***************************************************************************)
EXTENDS Integers, Sequences, FiniteSets, TLC

VARIABLES
    argv,            \* sys.argv
    zpool_names,     \* what `zpool list -H -o name` prints
    pc,              \* position of main
    pools,           \* main: pools
    selected_pools,  \* main: selected_pools
    pool_idx,        \* index of the pool of the outer loop
    states,          \* main: states, of the current pool
    devices,         \* the list get_devices_for_pool returned for the current pool
    dev_idx,         \* index of the device of the inner loop
    seen,            \* main: seen
    used_sd,         \* main: used_sd
    msg,             \* "none", "usage" or "invalid": the message main printed
    listed,          \* the pool names printed under "Available pools:"
    rows,            \* the print_device lines of the pools, in print order
    sys_disks,       \* what Path("/dev").glob("sd?") yields
    unassigned,      \* the list get_unassigned_devices returned
    un_rows,         \* the print_device lines under "Unassigned Devices:"
    queries,         \* the external queries made so far
    status_read,     \* pool name -> the device paths of the status text
                     \* get_devices_for_pool read, in text order
    fin,             \* input of the function under study
    fout,            \* its result
    fpc              \* "call" before it ran, "done" after

vars == <<argv, zpool_names, pc, pools, selected_pools, pool_idx,
          states, devices, dev_idx, seen, used_sd, msg, listed, rows, sys_disks,
          unassigned, un_rows, queries, status_read, fin, fout, fpc>>

mainVars == <<argv, zpool_names, pc, pools, selected_pools, pool_idx,
              states, devices, dev_idx, seen, used_sd, msg, listed, rows, sys_disks,
              unassigned, un_rows, queries, status_read>>

fnVars == <<fin, fout, fpc>>

(***************************************************************************)
(* Bounds and the sets the inputs are drawn from.                          *)
(***************************************************************************)
MaxLen == 2

Refs == {<<1, 1>>, <<1, 2>>, <<2>>}

SysDisks == {<<1>>, <<2>>, <<3>>}

PoolNames == {"tank", "backup"}

PoolLists == {<<>>, <<"tank">>, <<"tank", "backup">>, <<"backup", "tank">>}

Args == {"--all", "tank", "backup", "scratch"}

ArgVectors ==
    {<<"zfs-pool-info.py">>, <<"zfs-pool-info.py", "tank", "backup">>}
        \cup {<<"zfs-pool-info.py", a>> : a \in Args}

SeqsUpTo(S, n) == UNION {[1..k -> S] : k \in 0..n}

StatusTexts == SeqsUpTo(Refs, MaxLen)

Range(s) == {s[i] : i \in DOMAIN s}

(***************************************************************************)
(* Python's string order on device paths, and sorted().                    *)
(***************************************************************************)
RECURSIVE StrLess(_, _)
StrLess(a, b) ==
    IF b = <<>> THEN FALSE
    ELSE IF a = <<>> THEN TRUE
    ELSE IF Head(a) # Head(b) THEN Head(a) < Head(b)
    ELSE StrLess(Tail(a), Tail(b))

RECURSIVE sorted(_)
sorted(S) ==
    IF S = {} THEN <<>>
    ELSE LET m == CHOOSE x \in S : \A y \in S \ {x} : StrLess(x, y)
         IN  <<m>> \o sorted(S \ {m})

IsSorted(s) == \A i, j \in DOMAIN s : i < j => StrLess(s[i], s[j])

(***************************************************************************)
(* Results of the external queries.  rc is "ok" when the command ran and   *)
(* exited 0, and otherwise names what subprocess raised.                   *)
(***************************************************************************)
NoYear == -1

NoPoh == [kind |-> "none", whole |-> 0]

HoursPerYear == 8760

NA_year == [na |-> TRUE, year |-> 0, suffix |-> ""]

NA_written == [num |-> "N/A", unit |-> ""]

\* lsblk -no PKNAME prints the parent disk of a partition, nothing for a disk
PKNAME(dev_path) == IF Len(dev_path) = 2 THEN <<dev_path[1]>> ELSE <<>>

\* the digit runs that follow "Power_On_Hours" on its line of smartctl -A:
\* in the attribute table the FLAG column (0x0032) comes first and the raw
\* value last; in the "name: value" layout the value is the only number
DigitRuns(attrs) ==
    CASE attrs.layout = "table" -> <<0, 32, 97, 97, 0, attrs.hours>>
      [] attrs.layout = "plain" -> <<attrs.hours>>
      [] OTHER -> <<>>

(***************************************************************************)
(* get_sd_dev .. get_partuuid                                              *)
(***************************************************************************)
get_sd_dev(dev_path, lsblk) ==
    IF lsblk.rc = "ok" /\ lsblk.pk # <<>> THEN lsblk.pk ELSE dev_path

get_sg_dev(scan) ==
    IF scan.rc = "ok" /\ scan.matches # <<>> THEN Head(scan.matches) ELSE "N/A"

dict_get(v, default) ==
    IF v = "<absent>" THEN default ELSE IF v = "<null>" THEN "<None>" ELSE v

NA_info == [vendor |-> "N/A", model |-> "N/A", serial |-> "N/A"]

RECURSIVE find_blockdevice(_, _)
find_blockdevice(blockdevices, base) ==
    IF blockdevices = <<>> THEN NA_info
    ELSE LET dev == Head(blockdevices)
         IN  IF dev.name = <<>> THEN NA_info          \* KeyError: 'name'
             ELSE IF dev.name = base
                  THEN [vendor |-> dict_get(dev.vendor, "N/A"),
                        model  |-> dict_get(dev.model, "N/A"),
                        serial |-> dict_get(dev.serial, "N/A")]
                  ELSE find_blockdevice(Tail(blockdevices), base)

get_disk_info(sd_dev, lsblk_S) ==
    IF lsblk_S.rc = "ok" /\ lsblk_S.json = "ok"
    THEN find_blockdevice(lsblk_S.blockdevices, sd_dev)
    ELSE NA_info

\* lines 78-89: the general diagnostic source
smartctl_part(smart_i, smart_A) ==
    IF smart_i.rc # "ok" THEN [year |-> NA_year, poh |-> NoPoh]
    ELSE IF smart_i.year # NoYear
         THEN [year |-> [na |-> FALSE, year |-> smart_i.year, suffix |-> ""],
               poh |-> NoPoh]
         ELSE IF smart_A.rc = "ok" /\ DigitRuns(smart_A) # <<>>
              THEN [year |-> NA_year,
                    poh |-> [kind |-> "int", whole |-> Head(DigitRuns(smart_A))]]
              ELSE [year |-> NA_year, poh |-> NoPoh]

\* lines 91-106 with the year of the extended source taken only when the
\* general source gave none
opensea_part_keeps_year(g, sg_exists, opensea) ==
    IF sg_exists /\ opensea.rc = "ok"
    THEN [year |-> IF opensea.year # NoYear /\ g.year.na
                   THEN [na |-> FALSE, year |-> opensea.year, suffix |-> ""]
                   ELSE g.year,
          written |-> IF opensea.written # ""
                      THEN [num |-> opensea.written, unit |-> " TB"]
                      ELSE NA_written,
          poh |-> IF g.poh.kind = "none" /\ opensea.poh.kind # "none"
                  THEN opensea.poh ELSE g.poh]
    ELSE [year |-> g.year, written |-> NA_written, poh |-> g.poh]

\* lines 91-106: the extended diagnostic source
opensea_part(g, sg_exists, opensea) ==
    IF sg_exists /\ opensea.rc = "ok"
    THEN [year |-> IF opensea.year # NoYear
                   THEN [na |-> FALSE, year |-> opensea.year, suffix |-> ""]
                   ELSE g.year,
          written |-> IF opensea.written # ""
                      THEN [num |-> opensea.written, unit |-> " TB"]
                      ELSE NA_written,
          poh |-> IF g.poh.kind = "none" /\ opensea.poh.kind # "none"
                  THEN opensea.poh ELSE g.poh]
    ELSE [year |-> g.year, written |-> NA_written, poh |-> g.poh]

\* lines 108-114: the estimate
estimate_part(x, date) ==
    IF x.year.na /\ x.poh.kind # "none"
          /\ date.rc = "ok" /\ x.poh.kind # "bad"
    THEN [na |-> FALSE,
          year |-> date.year - (x.poh.whole \div HoursPerYear),
          suffix |-> " (est.)"]
    ELSE x.year

get_year_and_written(smart_i, smart_A, sg_exists, opensea, date) ==
    LET g == smartctl_part(smart_i, smart_A)
        x == opensea_part(g, sg_exists, opensea)
    IN  [year |-> estimate_part(x, date), written |-> x.written]

is_smr(smart_smr) == smart_smr.rc = "ok" /\ smart_smr.marker

get_device_size(lsblk_size) ==
    IF lsblk_size.rc = "ok" THEN lsblk_size.out ELSE "N/A"

get_partuuid(blkid) == IF blkid.rc = "ok" THEN blkid.out ELSE "N/A"

\* print_device formats every field with a width; None has no such format
print_device_raises(rec) ==
    "<None>" \in {rec.vendor, rec.model, rec.serial}

(***************************************************************************)
(* Lines 188-195 and 202-207: the record of one device.  e holds the       *)
(* results of the queries about the device.                                *)
(***************************************************************************)
device_record(label, sd_dev, state, e) ==
    LET sg_dev == get_sg_dev(e.sg_scan)
        info   == get_disk_info(sd_dev, e.lsblk_S)
        yw     == get_year_and_written(e.smart_i, e.smart_A, e.sg_exists,
                                       e.opensea, e.date)
    IN  [dev_label |-> label,
         size |-> get_device_size(e.lsblk_size),
         vendor |-> info.vendor, model |-> info.model, serial |-> info.serial,
         sd_dev |-> sd_dev, sg_dev |-> sg_dev, state |-> state,
         year |-> yw.year, written |-> yw.written,
         smr |-> IF is_smr(e.smart_smr) THEN "YES" ELSE "NO"]

(***************************************************************************)
(* The query results main is run against.                                  *)
(***************************************************************************)
Entry(name, vendor, model, serial) ==
    [name |-> name, vendor |-> vendor, model |-> model, serial |-> serial]

GoodListing ==
    [rc |-> "ok", json |-> "ok",
     blockdevices |-> <<Entry(<<1>>, "ATA", "ST2000", "Z1"),
                        Entry(<<2>>, "ATA", "ST2000", "Z2"),
                        Entry(<<3>>, "ATA", "ST2000", "Z3")>>]

NullVendorListing ==
    [rc |-> "ok", json |-> "ok",
     blockdevices |-> <<Entry(<<1>>, "<null>", "ST2000", "Z1"),
                        Entry(<<2>>, "<null>", "ST2000", "Z2"),
                        Entry(<<3>>, "<null>", "ST2000", "Z3")>>]

GoodEnv ==
    [sg_scan    |-> [rc |-> "ok", matches |-> <<"/dev/sg0">>],
     lsblk_S    |-> GoodListing,
     lsblk_size |-> [rc |-> "ok", out |-> "1.8T"],
     smart_i    |-> [rc |-> "ok", year |-> 2021],
     smart_A    |-> [rc |-> "ok", layout |-> "table", hours |-> 17520],
     sg_exists  |-> TRUE,
     opensea    |-> [rc |-> "ok", year |-> 2019, written |-> "1.5",
                     poh |-> [kind |-> "int", whole |-> 17520]],
     date       |-> [rc |-> "ok", year |-> 2024],
     smart_smr  |-> [rc |-> "ok", marker |-> FALSE],
     blkid      |-> [rc |-> "ok", out |-> "6f1c-01"]]

MainEnvs == {GoodEnv, [GoodEnv EXCEPT !.lsblk_S = NullVendorListing]}

\* subprocess.check_output: exit 0, CalledProcessError on another exit
\* status, OSError when the command cannot be run at all
ZpoolOutcomes == {"ok", "CalledProcessError", "OSError"}

\* the state word that follows a device path at the start of its line; ""
\* when the path is not followed by one
StateWord(ref) ==
    CASE ref = <<1, 1>> -> "ONLINE"
      [] ref = <<1, 2>> -> "DEGRADED"
      [] OTHER -> ""

NoStates == [r \in {} |-> ""]

DeviceQueries ==
    {"get_sd_dev", "get_sg_dev", "get_disk_info", "get_device_size",
     "get_year_and_written", "is_smr", "get_partuuid"}

(***************************************************************************)
(* list_zfs_pools .. get_device_states, get_unassigned_devices             *)
(***************************************************************************)
list_zfs_pools(rc, names) == IF rc = "ok" THEN names ELSE <<>>

get_zfs_status(rc, text) == IF rc = "ok" THEN text ELSE <<>>

\* the distinct paths of a text, each at the place of its first occurrence
first_seen(status) ==
    LET F[i \in 0..Len(status)] ==
            IF i = 0 THEN <<>>
            ELSE IF status[i] \in Range(F[i - 1]) THEN F[i - 1]
                 ELSE Append(F[i - 1], status[i])
    IN  F[Len(status)]

get_devices_first_seen(status) == first_seen(status)

get_devices_for_pool(status) == sorted(Range(status))

get_device_states(status) ==
    [r \in {x \in Range(status) : StateWord(x) # ""} |-> StateWord(r)]

states_get(st, dev, default) == IF dev \in DOMAIN st THEN st[dev] ELSE default

get_unassigned_all(used, entries) == sorted(entries)

get_unassigned_devices(used, entries) == sorted(entries \ used)

(***************************************************************************)
(* main                                                                    *)
(***************************************************************************)
MainInit ==
    /\ argv \in ArgVectors
    /\ zpool_names \in PoolLists
    /\ pc = "start"
    /\ pools = <<>>
    /\ selected_pools = <<>>
    /\ pool_idx = 1
    /\ states = NoStates
    /\ devices = <<>>
    /\ dev_idx = 1
    /\ seen = {}
    /\ used_sd = {}
    /\ msg = "none"
    /\ listed = <<>>
    /\ rows = <<>>
    /\ sys_disks = {}
    /\ unassigned = <<>>
    /\ un_rows = <<>>
    /\ queries = {}
    /\ status_read = [p \in PoolNames |-> <<>>]

FnIdle == fin = 0 /\ fout = 0 /\ fpc = "idle"

Init == MainInit /\ FnIdle

wrong_argc_missing_only(args) == Len(args) < 2

\* line 158
wrong_argc(args) == Len(args) # 2

seen_add_forgets(s, dev) == s

\* line 187
seen_add(s, dev) == s \cup {dev}

used_sd_add_overwrites(used, sd_dev) == {sd_dev}

\* line 197
used_sd_add(used, sd_dev) == used \cup {sd_dev}

\* lines 158-160
Main_Usage ==
    /\ pc = "start"
    /\ wrong_argc(argv)
    /\ msg' = "usage"
    /\ pc' = "done"
    /\ UNCHANGED <<argv, zpool_names, pools, selected_pools,
                   pool_idx, states, devices, dev_idx, seen, used_sd, listed,
                   rows, sys_disks, unassigned, un_rows, queries,
                   status_read>>

select_pools(arg, ps) ==
    IF arg = "--all" THEN ps
    ELSE IF arg \in Range(ps) THEN <<arg>>
    ELSE <<>>

is_valid_arg_any(arg, ps) == TRUE

\* lines 165-169
is_valid_arg(arg, ps) == arg = "--all" \/ arg \in Range(ps)

\* lines 162-178
Main_Select ==
    /\ pc = "start"
    /\ ~wrong_argc(argv)
    /\ \E rc \in ZpoolOutcomes :
         /\ queries' = queries \cup {"list_zfs_pools"}
         /\ IF rc = "OSError"
            THEN /\ pc' = "crashed"
                 /\ UNCHANGED <<pools, selected_pools, msg, listed>>
            ELSE LET ps == list_zfs_pools(rc, zpool_names)
                 IN  /\ pools' = ps
                     /\ IF is_valid_arg(argv[2], ps)
                        THEN /\ selected_pools' = select_pools(argv[2], ps)
                             /\ pc' = "pool"
                             /\ UNCHANGED <<msg, listed>>
                        ELSE /\ msg' = "invalid"
                             /\ listed' = ps
                             /\ pc' = "done"
                             /\ UNCHANGED selected_pools
    /\ UNCHANGED <<argv, zpool_names, pool_idx, states, devices,
                   dev_idx, seen, used_sd, rows, sys_disks, unassigned, 
                   un_rows, status_read>>

\* lines 180-184: the header, get_device_states and get_devices_for_pool;
\* text is what `zpool status -v -P` prints for the pool: its device paths,
\* one a line, in the order of the text
Main_BeginPool ==
    /\ pc = "pool"
    /\ pool_idx <= Len(selected_pools)
    /\ LET pool == selected_pools[pool_idx]
       IN  \E text \in StatusTexts, rc1, rc2 \in ZpoolOutcomes :
             /\ queries' = queries \cup {"get_zfs_status"}
             /\ IF rc1 = "OSError"
                THEN /\ pc' = "crashed"
                     /\ UNCHANGED <<states, devices, dev_idx, status_read>>
                ELSE /\ states' = get_device_states(get_zfs_status(rc1, text))
                     /\ IF rc2 = "OSError"
                        THEN /\ pc' = "crashed"
                             /\ UNCHANGED <<devices, dev_idx, status_read>>
                        ELSE LET status == get_zfs_status(rc2, text)
                             IN  /\ devices' = get_devices_for_pool(status)
                                 /\ status_read' =
                                        [status_read EXCEPT ![pool] = status]
                                 /\ dev_idx' = 1
                                 /\ pc' = "device"
    /\ UNCHANGED <<argv, zpool_names, pools, selected_pools,
                   pool_idx, seen, used_sd, msg, listed, rows, sys_disks,
                   unassigned, un_rows>>

\* lines 184-197: one iteration of the loop over the devices of the pool
Main_Device ==
    /\ pc = "device"
    /\ dev_idx <= Len(devices)
    /\ LET dev == devices[dev_idx]
       IN  IF dev \in seen
           THEN /\ dev_idx' = dev_idx + 1
                /\ UNCHANGED <<pc, seen, used_sd, rows, queries>>
           ELSE \E lsblk_rc \in {"ok", "fail"}, e \in MainEnvs :
                  LET sd_dev == get_sd_dev(dev, [rc |-> lsblk_rc, pk |-> PKNAME(dev)])
                      rec == device_record(get_partuuid(e.blkid), sd_dev,
                                           states_get(states, dev, "UNKNOWN"), e)
                  IN  /\ seen' = seen_add(seen, dev)
                      /\ queries' = queries \cup DeviceQueries
                      /\ IF print_device_raises(rec)
                         THEN /\ pc' = "crashed"
                              /\ UNCHANGED <<used_sd, rows, dev_idx>>
                         ELSE /\ rows' = Append(rows,
                                    [pool |-> selected_pools[pool_idx],
                                     dev |-> dev, rec |-> rec])
                              /\ used_sd' = used_sd_add(used_sd, sd_dev)
                              /\ dev_idx' = dev_idx + 1
                              /\ UNCHANGED pc
    /\ UNCHANGED <<argv, zpool_names, pools, selected_pools,
                   pool_idx, states, devices, msg, listed, sys_disks,
                   unassigned, un_rows, status_read>>

\* line 180: the inner loop is over, the next pool
Main_EndPool ==
    /\ pc = "device"
    /\ dev_idx > Len(devices)
    /\ pool_idx' = pool_idx + 1
    /\ pc' = "pool"
    /\ UNCHANGED <<argv, zpool_names, pools, selected_pools,
                   states, devices, dev_idx, seen, used_sd, msg, listed, rows,
                   sys_disks, unassigned, un_rows, queries, status_read>>

\* the print_device lines of the loop over the unassigned devices, up to the
\* first one print_device raises on; e holds the query results about them
RECURSIVE unassigned_rows(_, _)
unassigned_rows(devs, e) ==
    IF devs = <<>> THEN <<>>
    ELSE LET rec == device_record(Head(devs), Head(devs), "UNUSED", e)
         IN  IF print_device_raises(rec) THEN <<>>
             ELSE <<rec>> \o unassigned_rows(Tail(devs), e)

\* lines 199-208: get_unassigned_devices(used_sd) and the loop over its result
Main_Unassigned ==
    /\ pc = "pool"
    /\ pool_idx > Len(selected_pools)
    /\ \E entries \in SUBSET SysDisks, e \in MainEnvs :
         LET devs == get_unassigned_devices(used_sd, entries)
             printed == unassigned_rows(devs, e)
         IN  /\ sys_disks' = entries
             /\ unassigned' = devs
             /\ un_rows' = printed
             /\ queries' = queries \cup {"get_unassigned_devices"} \cup
                    (IF devs = <<>> THEN {}
                     ELSE DeviceQueries \ {"get_sd_dev", "get_partuuid"})
             /\ pc' = IF Len(printed) = Len(devs) THEN "done" ELSE "crashed"
    /\ UNCHANGED <<argv, zpool_names, pools, selected_pools,
                   pool_idx, states, devices, dev_idx, seen, used_sd, msg,
                   listed, rows, status_read>>

Next ==
    \/ (Main_Usage /\ UNCHANGED fnVars)
    \/ (Main_Select /\ UNCHANGED fnVars)
    \/ (Main_BeginPool /\ UNCHANGED fnVars)
    \/ (Main_Device /\ UNCHANGED fnVars)
    \/ (Main_EndPool /\ UNCHANGED fnVars)
    \/ (Main_Unassigned /\ UNCHANGED fnVars)

Spec == Init /\ [][Next]_vars

(***************************************************************************)
(* Properties of main.                                                     *)
(***************************************************************************)
RowDevs == {rows[i].dev : i \in DOMAIN rows}

RowDisks == {rows[i].rec.sd_dev : i \in DOMAIN rows}

UnassignedDisks == {un_rows[i].sd_dev : i \in DOMAIN un_rows}

PoolIndex(p) == CHOOSE i \in DOMAIN selected_pools : selected_pools[i] = p

RowsOfPool(p) == SelectSeq(rows, LAMBDA r : r.pool = p)

\* C1 as claimed: raw references that get_sd_dev resolves to the same disk
\* have one printed record between them, so no two lines of the pools show
\* the same physical disk.
C1_OneRecordPerDisk ==
    \A i, j \in DOMAIN rows :
        rows[i].rec.sd_dev = rows[j].rec.sd_dev => i = j

\* C1 as amended: the record is computed and printed at most once for each
\* raw device reference of the run; every reference marked seen has its one
\* printed line, except the reference whose print_device raised.
C1_OneRecordPerReference ==
    /\ \A i, j \in DOMAIN rows : rows[i].dev = rows[j].dev => i = j
    /\ RowDevs \subseteq seen
    /\ pc # "crashed" => RowDevs = seen
    /\ Cardinality(seen \ RowDevs) <= 1

C1_Witness ==
    \E i, j \in DOMAIN rows :
        /\ i # j
        /\ rows[i].rec.sd_dev = rows[j].rec.sd_dev
        /\ rows[i].dev # rows[j].dev
        /\ rows[i].pool # rows[j].pool

\* C2: once main has printed the unassigned devices, a disk of the system
\* disk namespace is in the unassigned list iff it is not in used_sd, and no
\* disk is both on a pool's line and in the unassigned list.
C2_UnassignedIffNotUsed ==
    /\ "get_unassigned_devices" \in queries =>
          /\ Range(unassigned) = {d \in sys_disks : d \notin used_sd}
          /\ IsSorted(unassigned)
          /\ UnassignedDisks \subseteq Range(unassigned)
          /\ RowDisks \cap Range(unassigned) = {}
    /\ pc = "done" /\ msg = "none" =>
          /\ UnassignedDisks = {d \in sys_disks : d \notin used_sd}
          /\ UnassignedDisks \cap RowDisks = {}

C2_Witness ==
    /\ pc = "done"
    /\ sys_disks = {<<1>>, <<2>>, <<3>>}
    /\ pools = <<"tank">>
    /\ argv[2] = "--all"
    /\ RowDisks = {<<1>>}
    /\ UnassignedDisks = {<<2>>, <<3>>}

\* C3: whatever the external queries do, the run never aborts with an
\* exception.
C3_NeverAborts == pc # "crashed"

\* C4 as claimed: get_devices_for_pool returns the distinct references in the
\* order of their first occurrence in the status text.
C4_FirstSeenOrder ==
    pc = "device" =>
        devices = first_seen(status_read[selected_pools[pool_idx]])

\* C4 as amended: get_devices_for_pool returns the distinct references of the
\* status text in ascending string order, and the lines of a pool are
\* printed in that order.
C4_SortedOrder ==
    /\ pc = "device" =>
          /\ Range(devices) = Range(status_read[selected_pools[pool_idx]])
          /\ IsSorted(devices)
    /\ \A p \in PoolNames :
          LET r == RowsOfPool(p)
          IN  \A i, j \in DOMAIN r : i < j => StrLess(r[i].dev, r[j].dev)

C4_Witness ==
    /\ pc = "device"
    /\ status_read[selected_pools[pool_idx]] = <<<<1, 2>>, <<1, 1>>>>
    /\ devices = <<<<1, 1>>, <<1, 2>>>>
    /\ Len(RowsOfPool(selected_pools[pool_idx])) = 2

\* list_zfs_pools was called and returned a list (possibly empty)
PoolsListed ==
    /\ "list_zfs_pools" \in queries
    /\ ~(pc = "crashed" /\ queries = {"list_zfs_pools"})

\* C7: once the pools are listed, an argument that is neither --all nor a
\* listed pool ends the run with the invalid-argument message and the list
\* of all pools; no status is read, no device is queried and nothing is
\* printed for a device.
C7_InvalidPoolName ==
    /\ msg = "invalid" =>
          /\ pc = "done"
          /\ listed = pools
          /\ queries = {"list_zfs_pools"}
          /\ rows = <<>> /\ un_rows = <<>>
          /\ seen = {} /\ used_sd = {}
    /\ (PoolsListed /\ argv[2] # "--all" /\ argv[2] \notin Range(pools)) =>
          msg = "invalid"

C7_Witness ==
    /\ msg = "invalid"
    /\ argv[2] = "scratch"
    /\ listed = <<"tank", "backup">>

\* C8 as claimed: a missing or surplus argument is reported together with
\* the list of the valid pool names.
C8_UsageListsPools ==
    msg = "usage" => "list_zfs_pools" \in queries /\ listed = zpool_names

\* C8 as amended: a missing or surplus argument ends the run with the usage
\* line alone: the pools are not even listed, and nothing else is queried or
\* printed.
C8_UsageOnly ==
    /\ (Len(argv) # 2 /\ pc # "start") =>
          /\ pc = "done"
          /\ msg = "usage"
    /\ msg = "usage" =>
          /\ Len(argv) # 2
          /\ queries = {} /\ listed = <<>> /\ pools = <<>>
          /\ rows = <<>> /\ un_rows = <<>>

C8_Witness ==
    /\ msg = "usage"
    /\ Len(argv) = 3
    /\ zpool_names = <<"tank", "backup">>

\* C10: the pools are processed in the order of the list; a raw reference is
\* printed at most once, under the first selected pool whose status text
\* holds it; at the end of each pool used_sd is the set of the disks
\* get_sd_dev gave for the references seen so far.
C10_SharedSeenSet ==
    /\ \A i, j \in DOMAIN rows : rows[i].dev = rows[j].dev => i = j
    /\ \A i, j \in DOMAIN rows :
          i < j => PoolIndex(rows[i].pool) <= PoolIndex(rows[j].pool)
    /\ \A i \in DOMAIN rows :
          /\ rows[i].dev \in Range(status_read[rows[i].pool])
          /\ \A k \in 1..(PoolIndex(rows[i].pool) - 1) :
                rows[i].dev \notin Range(status_read[selected_pools[k]])
          /\ rows[i].rec.sd_dev \in {rows[i].dev, PKNAME(rows[i].dev)}
    /\ (pc = "pool" \/ (pc = "device" /\ dev_idx > Len(devices))) =>
          /\ seen = UNION {Range(status_read[p]) : p \in PoolNames}
          /\ RowDevs = seen
          /\ used_sd = RowDisks
    /\ (pc \in {"pool", "device"} /\ argv[2] = "--all") => selected_pools = pools

C10_Witness ==
    /\ pc = "pool"
    /\ pool_idx = 3
    /\ Len(rows) = 2
    /\ Range(status_read["tank"]) \cap Range(status_read["backup"]) # {}
    /\ Cardinality(used_sd) = 2

(***************************************************************************)
(* get_year_and_written on its own: every combination of the results of    *)
(* smartctl -i, smartctl -A, the sg device, openSeaChest and date.          *)
(***************************************************************************)
MainIdle ==
    /\ argv = <<>> /\ zpool_names = <<>> /\ pc = "idle"
    /\ pools = <<>> /\ selected_pools = <<>> /\ pool_idx = 1
    /\ states = NoStates /\ devices = <<>> /\ dev_idx = 1
    /\ seen = {} /\ used_sd = {} /\ msg = "none" /\ listed = <<>>
    /\ rows = <<>> /\ sys_disks = {} /\ unassigned = <<>> /\ un_rows = <<>>
    /\ queries = {} /\ status_read = [p \in PoolNames |-> <<>>]

Years == {2019, 2021}

Hours == {0, 8759, 17520}

CurrentYears == {2024, 2025}

SmartInfoResults ==
    {[rc |-> "fail", year |-> NoYear]}
        \cup {[rc |-> "ok", year |-> y] : y \in Years \cup {NoYear}}

SmartAttrResults ==
    {[rc |-> "fail", layout |-> "none", hours |-> 0],
     [rc |-> "ok", layout |-> "none", hours |-> 0]}
        \cup {[rc |-> "ok", layout |-> l, hours |-> h] :
                  l \in {"table", "plain"}, h \in Hours}

\* what `Power On Hours:\s+([0-9.]+)` captured: digits, digits with a
\* fraction, or something float() rejects such as "1.2.3"
PohTokens ==
    {NoPoh, [kind |-> "int", whole |-> 17520], [kind |-> "dec", whole |-> 26280],
     [kind |-> "bad", whole |-> 0]}

OpenSeaResults ==
    {[rc |-> "fail", year |-> NoYear, written |-> "", poh |-> NoPoh]}
        \cup {[rc |-> "ok", year |-> y, written |-> w, poh |-> t] :
                  y \in {NoYear, 2019}, w \in {"", "1.5"}, t \in PohTokens}

DateResults ==
    {[rc |-> "fail", year |-> 0]} \cup {[rc |-> "ok", year |-> y] : y \in CurrentYears}

YearInit ==
    /\ MainIdle
    /\ fin \in [smart_i : SmartInfoResults, smart_A : SmartAttrResults,
                sg_exists : BOOLEAN, opensea : OpenSeaResults, date : DateResults]
    /\ fout = 0
    /\ fpc = "call"

Year_Call ==
    /\ fpc = "call"
    /\ fout' = get_year_and_written(fin.smart_i, fin.smart_A, fin.sg_exists,
                                    fin.opensea, fin.date)
    /\ fpc' = "done"
    /\ UNCHANGED <<fin, mainVars>>

YearNext == Year_Call

SpecYear == YearInit /\ [][YearNext]_vars

ExactYear(y) == [na |-> FALSE, year |-> y, suffix |-> ""]

EstYear(y) == [na |-> FALSE, year |-> y, suffix |-> " (est.)"]

\* what the sources hold, read off the query results
ExtAnswered == fin.sg_exists /\ fin.opensea.rc = "ok"

ExtHasYear == ExtAnswered /\ fin.opensea.year # NoYear

GenHasYear == fin.smart_i.rc = "ok" /\ fin.smart_i.year # NoYear

GenHasHours ==
    fin.smart_i.rc = "ok" /\ fin.smart_A.rc = "ok" /\ fin.smart_A.layout # "none"

ExtHasHours == ExtAnswered /\ fin.opensea.poh.kind # "none"

\* C5: the year is the exact year of the extended source if it gave one, else
\* the exact year of the general source if it gave one, else an estimate if
\* one can be made (hours obtained, numeric, and the current year read), else
\* "N/A".
C5_YearPrecedence ==
    fpc = "done" =>
        IF ExtHasYear THEN fout.year = ExactYear(fin.opensea.year)
        ELSE IF GenHasYear THEN fout.year = ExactYear(fin.smart_i.year)
        ELSE IF /\ GenHasHours \/ ExtHasHours
                /\ GenHasHours \/ fin.opensea.poh.kind # "bad"
                /\ fin.date.rc = "ok"
             THEN ~fout.year.na /\ fout.year.suffix = " (est.)"
             ELSE fout.year = NA_year

C5_Witness ==
    /\ fpc = "done"
    /\ ExtHasYear /\ fin.opensea.year = 2019
    /\ GenHasYear /\ fin.smart_i.year = 2021
    /\ fout.year = ExactYear(2019)

\* the power-on hours the sources report: those of the general source, or
\* those of the extended source when the general one gave none
ReportedHours ==
    IF GenHasHours THEN fin.smart_A.hours ELSE fin.opensea.poh.whole

\* C6: with no exact year from either source and power-on hours reported
\* (read as a number, with the current year known), the year is
\* current_year - floor(hours / 8760) with the " (est.)" suffix; an exact
\* year never carries the suffix.
C6_EstimateFromHours ==
    fpc = "done" =>
        /\ (/\ ~ExtHasYear /\ ~GenHasYear
            /\ GenHasHours \/ ExtHasHours
            /\ GenHasHours \/ fin.opensea.poh.kind # "bad"
            /\ fin.date.rc = "ok") =>
               fout.year = EstYear(fin.date.year - (ReportedHours \div HoursPerYear))
        /\ (ExtHasYear \/ GenHasYear) => fout.year.suffix = ""

(***************************************************************************)
(* The record of one device on its own (lines 188-196): every shape of the *)
(* lsblk -S -J listing, with the other sources answering or failing.       *)
(***************************************************************************)
FieldValues == {"<absent>", "<null>", "", "ATA"}

TargetEntries(name) ==
    {Entry(name, v, m, s) : v \in FieldValues, m \in FieldValues, s \in FieldValues}

OtherEntry == Entry(<<2>>, "WDC", "WD40", "W9")

\* an object of the listing without the "name" key
NamelessEntry == Entry(<<>>, "ATA", "ST2000", "Z0")

Listings ==
    {[rc |-> "fail", json |-> "ok", blockdevices |-> <<>>],
     [rc |-> "ok", json |-> "malformed", blockdevices |-> <<>>],
     [rc |-> "ok", json |-> "ok", blockdevices |-> <<>>],
     [rc |-> "ok", json |-> "ok", blockdevices |-> <<OtherEntry>>]}
        \cup {[rc |-> "ok", json |-> "ok", blockdevices |-> b] :
                  b \in UNION {{<<t>>, <<OtherEntry, t>>, <<NamelessEntry, t>>} :
                                   t \in TargetEntries(<<1>>)}}

FailEnv ==
    [sg_scan    |-> [rc |-> "fail", matches |-> <<>>],
     lsblk_S    |-> GoodListing,
     lsblk_size |-> [rc |-> "fail", out |-> ""],
     smart_i    |-> [rc |-> "fail", year |-> NoYear],
     smart_A    |-> [rc |-> "fail", layout |-> "none", hours |-> 0],
     sg_exists  |-> FALSE,
     opensea    |-> [rc |-> "fail", year |-> NoYear, written |-> "", poh |-> NoPoh],
     date       |-> [rc |-> "fail", year |-> 0],
     smart_smr  |-> [rc |-> "fail", marker |-> FALSE],
     blkid      |-> [rc |-> "fail", out |-> ""]]

InfoInit ==
    /\ MainIdle
    /\ fin \in {[dev |-> <<1, 1>>, lsblk_rc |-> rc, e |-> [e EXCEPT !.lsblk_S = l]] :
                    rc \in {"ok", "fail"}, e \in {GoodEnv, FailEnv}, l \in Listings}
    /\ fout = 0
    /\ fpc = "call"

Info_Call ==
    /\ fpc = "call"
    /\ LET sd_dev == get_sd_dev(fin.dev, [rc |-> fin.lsblk_rc, pk |-> PKNAME(fin.dev)])
           rec == device_record(get_partuuid(fin.e.blkid), sd_dev, "ONLINE", fin.e)
       IN  fout' = [rec |-> rec, raised |-> print_device_raises(rec)]
    /\ fpc' = "done"
    /\ UNCHANGED <<fin, mainVars>>

InfoNext == Info_Call

SpecInfo == InfoInit /\ [][InfoNext]_vars

\* the listing was read and parsed, and every object of it has a name
ListingAnswered ==
    /\ fin.e.lsblk_S.rc = "ok" /\ fin.e.lsblk_S.json = "ok"
    /\ \A i \in DOMAIN fin.e.lsblk_S.blockdevices :
          fin.e.lsblk_S.blockdevices[i].name # <<>>

EntriesOf(sd_dev) ==
    SelectSeq(fin.e.lsblk_S.blockdevices, LAMBDA d : d.name = sd_dev)

IsListedValue(v) == v \notin {"<absent>", "<null>", ""}

FieldOrUnknown(got, has, v) ==
    /\ got \in {"N/A"} \cup (IF has /\ IsListedValue(v) THEN {v} ELSE {})
    /\ (ListingAnswered /\ has /\ IsListedValue(v)) => got = v

\* C9: vendor, model and serial are each the listed value, or "N/A" when the
\* field is missing or empty, the source failed or the disk has no entry;
\* the record is printed with size, year and written-bytes from their own
\* sources.
C9_FieldOrUnknown ==
    fpc = "done" =>
        LET es == EntriesOf(fout.rec.sd_dev)
            has == es # <<>>
            d == IF has THEN Head(es) ELSE NamelessEntry
        IN  /\ FieldOrUnknown(fout.rec.vendor, has, d.vendor)
            /\ FieldOrUnknown(fout.rec.model, has, d.model)
            /\ FieldOrUnknown(fout.rec.serial, has, d.serial)
            /\ ~fout.raised
            /\ fout.rec.size = get_device_size(fin.e.lsblk_size)
            /\ fout.rec.year = get_year_and_written(fin.e.smart_i, fin.e.smart_A,
                                   fin.e.sg_exists, fin.e.opensea, fin.e.date).year

====
